---- MODULE Spec2Model ----
(***************************************************************************)
(* A model of the esp01 driver (src/src/lib.rs): the Esp8266 connection    *)
(* engine, its response waits, and the pure ring-buffer matcher and        *)
(* AT-response classifier.                                                 *)
(*                                                                         *)
(* Bytes are their ASCII codes.  A Rust slice is a TLA+ sequence: the      *)
(* slice's index i (from 0) is the sequence's index i + 1.                 *)
(***************************************************************************)
EXTENDS Integers, Sequences, FiniteSets, TLC

VARIABLES
    inst,         \* TRUE while an Esp8266 value exists (new returned Ok)
    op,           \* the public operation running, or the last that ran
    pc,           \* the driver's position inside op; "idle" between calls
    from,         \* the position the last operation returned from
    args,         \* send_data's arguments
    error_count,  \* power_up's local error_count
    buffer,       \* the ring buffer of the running (or last) wait
    offset,       \* its write offset (ptr)
    received,     \* the bytes rx.read() has returned to the running (or last) wait
    scan,         \* what read_until_message returned to the last wait
    response,     \* what the last wait_for_* returned; pending while it scans
    acks,         \* the waits of the running operation that returned Ok
    timer,        \* the countdown timer: "unarmed", "running", "expired"
    timerMs,      \* the duration the timer was last started with
    pin,          \* the level last driven on chip_enable: "unknown", "low", "high"
    pinLog,       \* the levels driven on chip_enable by the running operation
    wire,         \* the bytes the running operation has written to tx
    rxq,          \* bytes the module has emitted and rx has not yet returned
    emitted,      \* messages the module has emitted during the running wait
    result,       \* what the last operation returned
    pattern,      \* pure-function check: the comparison slice
    cmp,          \* pure-function check: compare_circular_buffer's result
    parsed,       \* pure-function check: parse_at_response's result
    formatted     \* pure-function check: itoa::fmt's result

vars == <<inst, op, pc, from, args, error_count, buffer, offset, received,
          scan, response, acks, timer, timerMs, pin, pinLog, wire, rxq,
          emitted, result, pattern, cmp, parsed, formatted>>

pureVars == <<pattern, cmp, parsed, formatted>>

----------------------------------------------------------------------------
(* Constants of the program *)

AT_RESPONSE_BUFFER_SIZE == 13

\* "OK\r\n"
OK_BYTES == <<79, 75, 13, 10>>
\* "ERROR\r\n"
ERROR_BYTES == <<69, 82, 82, 79, 82, 13, 10>>
\* "busy p...\r\n"
BUSY_BYTES == <<98, 117, 115, 121, 32, 112, 46, 46, 46, 13, 10>>
\* "WIFI GOT IP\r\n"
GOT_IP_BYTES == <<87, 73, 70, 73, 32, 71, 79, 84, 32, 73, 80, 13, 10>>

ATResponse == {"Ok", "Error", "Busy", "WiFiGotIp"}

Min(a, b) == IF a < b THEN a ELSE b

----------------------------------------------------------------------------
(* compare_circular_buffer *)

\* The index into circular_buffer computed for loop index i (mutant: the
\* comparison starts at offset, one past the newest byte)
circular_index_at_offset(len, off, i) == (len + off - i) % len

\* let circular_index = (circular_buffer.len() + offset - 1 - i) % circular_buffer.len();
circular_index(len, off, i) == (len + off - 1 - i) % len

\* let comparison_index = comparison.len() - 1 - i;
comparison_index(comparison, i) == Len(comparison) - 1 - i

\* The for loop from index i on: FALSE at the first differing byte, TRUE
\* when i reaches comparison_length.
RECURSIVE compare_loop(_, _, _, _, _)
compare_loop(circular_buffer, off, comparison, comparison_length, i) ==
    IF i >= comparison_length THEN TRUE
    ELSE IF circular_buffer[circular_index(Len(circular_buffer), off, i) + 1]
                # comparison[comparison_index(comparison, i) + 1]
         THEN FALSE
         ELSE compare_loop(circular_buffer, off, comparison, comparison_length, i + 1)

\* Mutant: only the last two bytes are compared
compare_circular_buffer_two_bytes(circular_buffer, off, comparison) ==
    LET comparison_length == Min(Min(Len(circular_buffer), Len(comparison)), 2)
    IN  compare_loop(circular_buffer, off, comparison, comparison_length, 0)

compare_circular_buffer(circular_buffer, off, comparison) ==
    LET comparison_length == Min(Len(circular_buffer), Len(comparison))
    IN  compare_loop(circular_buffer, off, comparison, comparison_length, 0)

----------------------------------------------------------------------------
(* parse_at_response *)

\* Mutant: the Error pattern is tried without its first byte ("RROR\r\n")
parse_at_response_short_error(buf, off) ==
    IF compare_circular_buffer(buf, off, OK_BYTES) THEN "Ok"
    ELSE IF compare_circular_buffer(buf, off, Tail(ERROR_BYTES)) THEN "Error"
    ELSE IF compare_circular_buffer(buf, off, BUSY_BYTES) THEN "Busy"
    ELSE IF compare_circular_buffer(buf, off, GOT_IP_BYTES) THEN "WiFiGotIp"
    ELSE "None"

\* Mutant: Ok is recognised one byte early, on "OK\r"
parse_at_response_early_ok(buf, off) ==
    IF compare_circular_buffer(buf, off, <<79, 75, 13>>) THEN "Ok"
    ELSE IF compare_circular_buffer(buf, off, ERROR_BYTES) THEN "Error"
    ELSE IF compare_circular_buffer(buf, off, BUSY_BYTES) THEN "Busy"
    ELSE IF compare_circular_buffer(buf, off, GOT_IP_BYTES) THEN "WiFiGotIp"
    ELSE "None"

parse_at_response(buf, off) ==
    IF compare_circular_buffer(buf, off, OK_BYTES) THEN "Ok"
    ELSE IF compare_circular_buffer(buf, off, ERROR_BYTES) THEN "Error"
    ELSE IF compare_circular_buffer(buf, off, BUSY_BYTES) THEN "Busy"
    ELSE IF compare_circular_buffer(buf, off, GOT_IP_BYTES) THEN "WiFiGotIp"
    ELSE "None"

\* The byte pattern of a variant
PatternOf(r) ==
    CASE r = "Ok" -> OK_BYTES
      [] r = "Error" -> ERROR_BYTES
      [] r = "Busy" -> BUSY_BYTES
      [] r = "WiFiGotIp" -> GOT_IP_BYTES

----------------------------------------------------------------------------
(* Bounds of the model *)

\* Messages the module may emit during one wait
MaxEmit == 2
\* Bytes of a chunk that write_all may have written when it fails
MaxTxPartial == 1
\* Length of the short ring buffers the pure functions are applied to
MaxPureLen == 4
\* Pieces a received byte stream is put together from
MaxPieces == 2

----------------------------------------------------------------------------
(* Values *)

\* Result<(), Error<R, T, P>> and Result<(), TransmissionError<R, T, P>>:
\* step is set by TransmissionError only; detail is the ATResponse of an
\* UnexpectedResponse and the serial::Error of an RxError.
NoResult == [status |-> "none", step |-> "none", cause |-> "none", detail |-> "none"]
Pending == [status |-> "pending", step |-> "none", cause |-> "none", detail |-> "none"]
OkResult == [status |-> "Ok", step |-> "none", cause |-> "none", detail |-> "none"]
Err(cause, detail) == [status |-> "Err", step |-> "none", cause |-> cause, detail |-> detail]
Panicked(site) == [status |-> "panic", step |-> "none", cause |-> site, detail |-> "none"]

\* Result<R, serial::Error<E>> of read_until_message
NoScan == [status |-> "none", val |-> "none"]
ScanPending == [status |-> "pending", val |-> "none"]
ScanOk(v) == [status |-> "Ok", val |-> v]
ScanErr(e) == [status |-> "Err", val |-> e]

\* An ArrayString of a capacity, the value itoa::fmt is to write into it, and
\* the Result<(), fmt::Error> and the string once it has; none before any call
NoFormat == [capacity |-> 0, value |-> 0, ok |-> FALSE, str |-> <<>>]

NoArgs == [connection_type |-> "none", address |-> <<>>, port |-> 0, data |-> <<>>]

\* impl From<Second> for Millisecond: duration * 1000 (the driver converts
\* only STARTUP_TIMEOUT and DEFAULT_TIMEOUT, far below u32's range)
MillisecondFrom(seconds) == seconds * 1000

STARTUP_TIMEOUT == 10
DEFAULT_TIMEOUT == 5
RESET_DELAY_MS == 10
PULL_DELAY_MS == 500
MAX_ERROR_COUNT == 255

\* [0; N]
Zeroes(n) == [i \in 1..n |-> 0]

RECURSIVE Flatten(_)
Flatten(chunks) ==
    IF chunks = <<>> THEN <<>> ELSE Head(chunks) \o Flatten(Tail(chunks))

\* serial::write_all over the slices of consecutive send_raw calls: all are
\* written, or the write of one byte fails and send_raw returns TxError with
\* the bytes before it on the wire.
TxOutcomes(chunks) ==
    {[ok |-> TRUE, written |-> Flatten(chunks)]}
    \cup
    {[ok |-> FALSE,
      written |-> Flatten(SubSeq(chunks, 1, j - 1)) \o SubSeq(chunks[j], 1, k)] :
        <<j, k>> \in {jk \in (1..Len(chunks)) \X (0..MaxTxPartial) :
                        jk[2] < Len(chunks[jk[1]])}}

\* "AT", "\r\n"
AT_BYTES == <<65, 84>>
CRLF_BYTES == <<13, 10>>
\* "E0"
E0_BYTES == <<69, 48>>
\* "+CIPCLOSE"
CIPCLOSE_BYTES == <<43, 67, 73, 80, 67, 76, 79, 83, 69>>

\* Mutant: a space is written between "AT" and the command
send_at_command_with_space(command) == <<AT_BYTES, <<32>>, command, CRLF_BYTES>>

\* send_at_command's three send_raw calls
send_at_command(command) == <<AT_BYTES, command, CRLF_BYTES>>

----------------------------------------------------------------------------
(* The driver's positions *)

AtWaits == {"wait_got_ip", "wait_echo_ok", "wait_connect_ok", "wait_send_ok",
            "wait_close_ok"}
Waits == AtWaits \cup {"wait_prompt"}

\* wait_for_ok, wait_for_got_ip: the response each wait expects
Expected(w) == IF w = "wait_got_ip" THEN "WiFiGotIp" ELSE "Ok"

Scanning == pc \in Waits /\ response.status = "pending"

----------------------------------------------------------------------------
(* Effects shared by the actions *)

\* Mutant: new hands out the value whatever reset returned
new_instance_unchecked(o, r, had) == IF o = "new" THEN TRUE ELSE had

\* Whether an Esp8266 value exists once operation o has returned r:
\* new's result.reset()?; Ok(result) makes one only when reset returned Ok,
\* the other operations borrow the one there is
new_instance(o, r, had) == IF o = "new" THEN r.status = "Ok" ELSE had

\* The operation o returns r from position at
Return(o, at, r) ==
    /\ pc' = "idle"
    /\ from' = at
    /\ result' = r
    /\ inst' = new_instance(o, r, inst)

\* The operation goes on at position l
Goto(l) == pc' = l /\ from' = "none" /\ result' = Pending /\ UNCHANGED inst

\* A wait starts: a zeroed buffer of n bytes, the timer started
BeginWait(n, ms) ==
    /\ buffer' = Zeroes(n)
    /\ offset' = 0
    /\ received' = <<>>
    /\ scan' = ScanPending
    /\ response' = Pending
    /\ emitted' = 0
    /\ timer' = "running"
    /\ timerMs' = ms

\* No wait has started in the operation being called
ClearWait ==
    /\ buffer' = <<>>
    /\ offset' = 0
    /\ received' = <<>>
    /\ scan' = NoScan
    /\ response' = NoResult
    /\ emitted' = 0

KeepWait == UNCHANGED <<buffer, offset, received, scan, response, emitted>>
KeepTimer == UNCHANGED <<timer, timerMs>>
KeepPure == UNCHANGED pureVars

\* Mutant: the timer is not started
StartTimer_skipped(ms) == UNCHANGED <<timer, timerMs>>

\* self.timer.start(Millisecond(ms))
StartTimer(ms) == timer' = "running" /\ timerMs' = ms

----------------------------------------------------------------------------
(* Initial state: no driver value yet, nothing sent or received *)

Init ==
    /\ inst = FALSE
    /\ op = "none"
    /\ pc = "idle"
    /\ from = "none"
    /\ args = NoArgs
    /\ error_count = 0
    /\ buffer = <<>>
    /\ offset = 0
    /\ received = <<>>
    /\ scan = NoScan
    /\ response = NoResult
    /\ acks = <<>>
    /\ timer = "unarmed"
    /\ timerMs = 0
    /\ pin = "unknown"
    /\ pinLog = <<>>
    /\ wire = <<>>
    /\ rxq = <<>>
    /\ emitted = 0
    /\ result = NoResult
    /\ pattern = <<>>
    /\ cmp = FALSE
    /\ parsed = "None"
    /\ formatted = NoFormat

----------------------------------------------------------------------------
(* wait_for_at_response, wait_for_prompt: the scanner's result as returned *)

\* Mutant: any recognised response is taken for the expected one
wait_for_at_response_any(expected_response, r) ==
    IF r.status = "Ok" THEN OkResult ELSE Err("RxError", r.val)

\* Mutant: a timeout of the scanner is not returned, the wait goes on
wait_for_at_response_ignores_timeout(expected_response, r) ==
    IF r.status = "Ok" /\ r.val = expected_response THEN OkResult
    ELSE IF r.status = "Ok" THEN Err("UnexpectedResponse", r.val)
    ELSE IF r.val = "TimedOut" THEN Pending
    ELSE Err("RxError", r.val)

\* match response { Ok(ref resp) if resp == expected_response => Ok(()),
\*                  Ok(other) => Err(UnexpectedResponse(other)),
\*                  Err(e) => Err(RxError(e)) }
wait_for_at_response(expected_response, r) ==
    IF r.status = "Ok" /\ r.val = expected_response THEN OkResult
    ELSE IF r.status = "Ok" THEN Err("UnexpectedResponse", r.val)
    ELSE Err("RxError", r.val)

\* match result { Ok(_) => Ok(()), Err(e) => Err(RxError(e)) }
wait_for_prompt(r) ==
    IF r.status = "Ok" THEN OkResult ELSE Err("RxError", r.val)

\* Mutant: any byte but zero is taken for the prompt
prompt_parser_any_byte(buf) == IF buf[1] # 0 THEN "Prompt" ELSE "None"

\* The closure wait_for_prompt scans with: Some(()) when buf[0] is '>'
prompt_parser(buf) == IF buf[1] = 62 THEN "Prompt" ELSE "None"

Parser(w, buf, ptr) ==
    IF w = "wait_prompt" THEN prompt_parser(buf) ELSE parse_at_response(buf, ptr)

WaitResult(w, r) ==
    IF w = "wait_prompt" THEN wait_for_prompt(r)
    ELSE wait_for_at_response(Expected(w), r)

----------------------------------------------------------------------------
(* serial::read_until_message, with the module and the timer around it.     *)
(* rxq holds the bytes rx.read() will return before it would block: the     *)
(* timer is polled, and the receiver's error reported, once they are read.  *)
(* The countdown running out is seen in the step that polls the timer.      *)

\* What the module may emit: the four terminal messages and the prompt
ModuleMessages == {OK_BYTES, ERROR_BYTES, BUSY_BYTES, GOT_IP_BYTES, <<62>>}

\* The module emits a message
module_emits ==
    /\ Scanning
    /\ rxq = <<>>
    /\ emitted < MaxEmit
    /\ \E m \in ModuleMessages : rxq' = m
    /\ emitted' = emitted + 1
    /\ UNCHANGED <<inst, op, pc, from, args, error_count, buffer,
                   offset, received, scan, response, acks, timer, timerMs,
                   pin, pinLog, wire, result>>
    /\ KeepPure

\* rx.read() returns a byte: it is stored at ptr, ptr advances modulo the
\* buffer's length, and the parser is run on the buffer
read_byte ==
    /\ Scanning
    /\ rxq # <<>>
    /\ LET buf == [buffer EXCEPT ![offset + 1] = Head(rxq)]
           ptr == (offset + 1) % Len(buffer)
           m == Parser(pc, buf, ptr)
       IN  /\ buffer' = buf
           /\ offset' = ptr
           /\ received' = Append(received, Head(rxq))
           /\ scan' = IF m = "None" THEN scan ELSE ScanOk(m)
           /\ response' = IF m = "None" THEN response
                          ELSE WaitResult(pc, ScanOk(m))
    /\ rxq' = Tail(rxq)
    /\ UNCHANGED <<inst, op, pc, from, args, error_count, acks,
                   timer, timerMs, pin, pinLog, wire, emitted, result>>
    /\ KeepPure

\* rx.read() would block, the countdown has run out and timer.wait() returns
\* Ok: Error::TimedOut
read_timeout ==
    /\ Scanning
    /\ rxq = <<>>
    /\ timer = "running"
    /\ timer' = "expired"
    /\ scan' = ScanErr("TimedOut")
    /\ response' = WaitResult(pc, ScanErr("TimedOut"))
    /\ UNCHANGED <<inst, op, pc, from, args, error_count, buffer,
                   offset, received, acks, timerMs, pin, pinLog, wire, rxq,
                   emitted, result>>
    /\ KeepPure

\* rx.read() fails: the receiver's error is returned at once
read_serial_error ==
    /\ Scanning
    /\ rxq = <<>>
    /\ scan' = ScanErr("Serial")
    /\ response' = WaitResult(pc, ScanErr("Serial"))
    /\ UNCHANGED <<inst, op, pc, from, args, error_count, buffer,
                   offset, received, acks, timer, timerMs, pin, pinLog, wire,
                   rxq, emitted, result>>
    /\ KeepPure

\* The wait at position w has returned
Returned(w) == pc = w /\ response.status \in {"Ok", "Err"}

----------------------------------------------------------------------------
(* power_down, reset, power_up, new, pull_some_current *)

\* Mutant: power_down also starts the timer
power_down_starting_timer ==
    /\ pc = "idle" /\ inst
    /\ op' = "power_down"
    /\ \E pinOk \in BOOLEAN :
          /\ pin' = IF pinOk THEN "low" ELSE pin
          /\ pinLog' = IF pinOk THEN <<"low">> ELSE <<>>
          /\ Return("power_down", "power_down",
                    IF pinOk THEN OkResult ELSE Err("PinError", "none"))
    /\ args' = NoArgs /\ error_count' = 0
    /\ acks' = <<>> /\ wire' = <<>>
    /\ ClearWait /\ StartTimer(RESET_DELAY_MS)
    /\ UNCHANGED rxq
    /\ KeepPure

\* power_down as a public operation:
\* self.chip_enable_pin.set_low().map_err(Error::PinError)
power_down ==
    /\ pc = "idle" /\ inst
    /\ op' = "power_down"
    /\ \E pinOk \in BOOLEAN :
          /\ pin' = IF pinOk THEN "low" ELSE pin
          /\ pinLog' = IF pinOk THEN <<"low">> ELSE <<>>
          /\ Return("power_down", "power_down",
                    IF pinOk THEN OkResult ELSE Err("PinError", "none"))
    /\ args' = NoArgs /\ error_count' = 0
    /\ acks' = <<>> /\ wire' = <<>>
    /\ ClearWait /\ KeepTimer
    /\ UNCHANGED rxq
    /\ KeepPure

\* reset up to its delay, for the operation o (new or reset):
\* self.power_down()?; self.timer.start(Millisecond(10));
ResetEnter(o) ==
    /\ op' = o
    /\ \E pinOk \in BOOLEAN :
          IF pinOk
          THEN /\ pin' = "low"
               /\ pinLog' = <<"low">>
               /\ StartTimer(RESET_DELAY_MS)
               /\ Goto("reset_delay")
          ELSE /\ UNCHANGED pin
               /\ pinLog' = <<>>
               /\ KeepTimer
               /\ Return(o, "power_down", Err("PinError", "none"))
    /\ args' = NoArgs /\ error_count' = 0
    /\ acks' = <<>> /\ wire' = <<>>
    /\ ClearWait
    /\ UNCHANGED rxq
    /\ KeepPure

\* let mut result = Self {tx, rx, timer, chip_enable_pin}; result.reset()?;
new ==
    /\ pc = "idle" /\ ~inst
    /\ ResetEnter("new")

reset ==
    /\ pc = "idle" /\ inst
    /\ ResetEnter("reset")

\* power_up up to its first wait, for the operation o with the levels log
\* driven so far: self.chip_enable_pin.set_high().map_err(Error::PinError)?;
\* let mut error_count = 0; loop { match self.wait_for_got_ip(..) ...
PowerUpEnter(o, log) ==
    /\ \E pinOk \in BOOLEAN :
          IF pinOk
          THEN /\ pin' = "high"
               /\ pinLog' = Append(log, "high")
               /\ Goto("wait_got_ip")
               /\ BeginWait(AT_RESPONSE_BUFFER_SIZE, MillisecondFrom(STARTUP_TIMEOUT))
          ELSE /\ UNCHANGED pin
               /\ pinLog' = log
              
               /\ Return(o, "set_high", Err("PinError", "none"))
               /\ ClearWait
               /\ timer' = IF pc = "reset_delay" THEN "expired" ELSE timer
               /\ UNCHANGED timerMs
    /\ args' = NoArgs /\ error_count' = 0
    /\ acks' = <<>> /\ wire' = <<>>
    /\ UNCHANGED rxq
    /\ KeepPure

power_up ==
    /\ pc = "idle" /\ inst
    /\ op' = "power_up"
    /\ PowerUpEnter("power_up", <<>>)

\* block!(self.timer.wait()).unwrap(); self.power_up()
\* LongTimer::wait returns nb::Result<(), Infallible>: while the timer runs
\* it is WouldBlock and block! polls again; there is no error to unwrap.
reset_delay_done ==
    /\ pc = "reset_delay"
    /\ timer = "running"
    /\ UNCHANGED op
    /\ PowerUpEnter(op, pinLog)

\* Mutant: the retry bound is tested before the timeout, one retry short
power_up_match_one_short(r, count) ==
    IF r.status = "Ok" THEN "break"
    ELSE IF count + 1 >= MAX_ERROR_COUNT THEN "return"
    ELSE IF r.cause = "RxError" /\ r.detail = "TimedOut" THEN "return"
    ELSE "continue"

\* Mutant: a timeout is retried like any other error
power_up_match_retry_timeout(r, count) ==
    IF r.status = "Ok" THEN "break"
    ELSE IF count < MAX_ERROR_COUNT THEN "continue"
    ELSE "return"

\* Mutant: the retry bound admits one more retry
power_up_match_one_more(r, count) ==
    IF r.status = "Ok" THEN "break"
    ELSE IF r.cause = "RxError" /\ r.detail = "TimedOut" THEN "return"
    ELSE IF count <= MAX_ERROR_COUNT THEN "continue"
    ELSE "return"

\* Mutant: busy p... leaves the loop like WiFiGotIp
power_up_match_break_on_busy(r, count) ==
    IF r.status = "Ok" \/ r.detail = "Busy" THEN "break"
    ELSE IF r.cause = "RxError" /\ r.detail = "TimedOut" THEN "return"
    ELSE IF count < MAX_ERROR_COUNT THEN "continue"
    ELSE "return"

\* match self.wait_for_got_ip(STARTUP_TIMEOUT.into()) {
\*     Ok(()) => break,
\*     e @ Err(Error::RxError(serial::Error::TimedOut)) => return e,
\*     e => if error_count < 255 { error_count += 1; continue } else { return e } }
power_up_match(r, count) ==
    IF r.status = "Ok" THEN "break"
    ELSE IF r.cause = "RxError" /\ r.detail = "TimedOut" THEN "return"
    ELSE IF count < MAX_ERROR_COUNT THEN "continue"
    ELSE "return"

\* One turn of power_up's loop once wait_for_got_ip has returned; on break
\* the local error_count is dead (kept as 0), self.send_at_command("E0")?;
\* and the wait for Ok starts
power_up_loop ==
    /\ Returned("wait_got_ip")
    /\ LET arm == power_up_match(response, error_count)
       IN  CASE arm = "return" ->
                  /\ Return(op, "wait_got_ip", response)
                  /\ UNCHANGED <<error_count, acks, wire>>
                  /\ KeepWait /\ KeepTimer
             [] arm = "continue" ->
                  /\ error_count' = error_count + 1
                  /\ Goto("wait_got_ip")
                  /\ BeginWait(AT_RESPONSE_BUFFER_SIZE, MillisecondFrom(STARTUP_TIMEOUT))
                  /\ UNCHANGED <<acks, wire>>
             [] arm = "break" ->
                  /\ acks' = Append(acks, "wait_got_ip")
                  /\ error_count' = 0
                  /\ \E tx \in TxOutcomes(send_at_command(E0_BYTES)) :
                        /\ wire' = wire \o tx.written
                        /\ IF tx.ok
                           THEN /\ Goto("wait_echo_ok")
                                /\ BeginWait(AT_RESPONSE_BUFFER_SIZE,
                                             MillisecondFrom(DEFAULT_TIMEOUT))
                           ELSE /\ Return(op, "send_echo", Err("TxError", "none"))
                                /\ KeepWait /\ KeepTimer
    /\ UNCHANGED <<op, args, pin, pinLog, rxq>>
    /\ KeepPure

\* self.wait_for_ok(DEFAULT_TIMEOUT.into())?; Ok(())
power_up_echo_done ==
    /\ Returned("wait_echo_ok")
    /\ acks' = IF response.status = "Ok" THEN Append(acks, "wait_echo_ok") ELSE acks
    /\ Return(op, "wait_echo_ok", response)
    /\ UNCHANGED <<op, args, error_count, pin, pinLog, wire, rxq>>
    /\ KeepWait /\ KeepTimer
    /\ KeepPure

\* pull_some_current up to its delay:
\* self.chip_enable_pin.set_high().map_err(Error::PinError)?;
\* self.timer.start(Millisecond(500));
pull_some_current ==
    /\ pc = "idle" /\ inst
    /\ op' = "pull_some_current"
    /\ \E pinOk \in BOOLEAN :
          IF pinOk
          THEN /\ pin' = "high"
               /\ pinLog' = <<"high">>
               /\ StartTimer(PULL_DELAY_MS)
               /\ Goto("pull_delay")
          ELSE /\ UNCHANGED pin
               /\ pinLog' = <<>>
               /\ KeepTimer
               /\ Return("pull_some_current", "pull_high", Err("PinError", "none"))
    /\ args' = NoArgs /\ error_count' = 0
    /\ acks' = <<>> /\ wire' = <<>>
    /\ ClearWait
    /\ UNCHANGED rxq
    /\ KeepPure

\* block!(self.timer.wait()).unwrap();
\* self.chip_enable_pin.set_low().map_err(Error::PinError)
pull_delay_done ==
    /\ pc = "pull_delay"
    /\ timer = "running"
    /\ timer' = "expired"
    /\ UNCHANGED timerMs
    /\ \E pinOk \in BOOLEAN :
          /\ pin' = IF pinOk THEN "low" ELSE pin
          /\ pinLog' = IF pinOk THEN Append(pinLog, "low") ELSE pinLog
          /\ Return(op, "pull_low",
                    IF pinOk THEN OkResult ELSE Err("PinError", "none"))
    /\ UNCHANGED <<op, args, error_count, acks, wire, rxq>>
    /\ KeepWait
    /\ KeepPure

----------------------------------------------------------------------------
(* send_data, close_connection *)

\* itoa: the decimal digits of n, most significant first
RECURSIVE Decimal(_)
Decimal(n) ==
    IF n < 10 THEN <<48 + n>> ELSE Append(Decimal(n \div 10), 48 + (n % 10))

\* Mutant: the string must leave one byte of the capacity free
itoa_fmt_one_spare(capacity, n) ==
    IF Len(Decimal(n)) < capacity
    THEN [ok |-> TRUE, str |-> Decimal(n)]
    ELSE [ok |-> FALSE, str |-> <<>>]

\* itoa::fmt into an empty ArrayString of the given capacity: the digits are
\* pushed in one write_str, which fails (fmt::Error) when they do not fit
itoa_fmt(capacity, n) ==
    IF Len(Decimal(n)) <= capacity
    THEN [ok |-> TRUE, str |-> Decimal(n)]
    ELSE [ok |-> FALSE, str |-> <<>>]

PORT_STRING_LENGTH == 5
LENGTH_BUFFER_SIZE == 4
MAX_MESSAGE_LENGTH == 2048

\* Mutant: both connection types are rendered "TCP"
as_str_always_tcp(connection_type) == <<84, 67, 80>>

\* ConnectionType::as_str: "TCP", "UDP"
as_str(connection_type) ==
    IF connection_type = "Tcp" THEN <<84, 67, 80>> ELSE <<85, 68, 80>>

\* "AT+CIPSTART=\""
CIPSTART_BYTES == <<65, 84, 43, 67, 73, 80, 83, 84, 65, 82, 84, 61, 34>>
\* "AT+CIPSEND="
CIPSEND_BYTES == <<65, 84, 43, 67, 73, 80, 83, 69, 78, 68, 61>>

\* The seven send_raw calls of start_tcp_connection
start_tcp_connection(connection_type, address, port_str) ==
    <<CIPSTART_BYTES, as_str(connection_type), <<34, 44, 34>>, address,
      <<34, 44>>, port_str, CRLF_BYTES>>

\* Mutant: the length test admits 2048
length_allowed_inclusive(message_length) == message_length <= MAX_MESSAGE_LENGTH

\* Mutant: the length test is one too strict
length_allowed_below_2047(message_length) == message_length < MAX_MESSAGE_LENGTH - 1

\* assert!(message_length < 2048);
length_allowed(message_length) == message_length < MAX_MESSAGE_LENGTH

\* The three send_raw calls of start_transmission
start_transmission(length_str) == <<CIPSEND_BYTES, length_str, CRLF_BYTES>>

\* Mutant: a failure of the closing command is tagged Send
send_data_step_close_as_send(at) ==
    IF at \in {"start_tcp_connection", "wait_connect_ok"} THEN "Connect" ELSE "Send"

\* The TransmissionStep send_data passes to try_step for the call that covers
\* position at: start_tcp_connection, transmit_data, close_connection
send_data_step(at) ==
    IF at \in {"start_tcp_connection", "wait_connect_ok"} THEN "Connect"
    ELSE IF at \in {"start_transmission", "wait_prompt", "send_payload",
                    "wait_send_ok"} THEN "Send"
    ELSE "Close"

\* TransmissionError::try_step: cause.map_err(|e| Self { step, cause: e })
try_step(step, cause) ==
    IF cause.status = "Ok" THEN cause ELSE [cause EXCEPT !.step = step]

\* What operation o returns when the call at position at returned r
Outcome(o, at, r) ==
    IF o = "send_data" THEN try_step(send_data_step(at), r) ELSE r

\* assert! fails: the thread panics
Panic(at, site) ==
    /\ pc' = "panicked"
    /\ from' = at
    /\ result' = Panicked(site)
    /\ UNCHANGED inst

\* The arguments send_data is called with
ConnectionTypes == {"Tcp", "Udp"}
\* "192.168.1.1", ""
Addresses == {<<49, 57, 50, 46, 49, 54, 56, 46, 49, 46, 49>>, <<>>}
Ports == {0, 80, 65535}
DataLengths == {0, 2, 2047, 2048}
\* a str of n bytes: "hihi..."
Data(n) == [i \in 1..n |-> 104 + ((i + 1) % 2)]
Payloads == {Data(n) : n \in DataLengths}

\* send_data is called
send_data ==
    /\ pc = "idle" /\ inst
    /\ op' = "send_data"
    /\ \E ct \in ConnectionTypes, address \in Addresses, port \in Ports,
          data \in Payloads :
          args' = [connection_type |-> ct, address |-> address,
                   port |-> port, data |-> data]
    /\ Goto("start_tcp_connection")
    /\ error_count' = 0 /\ acks' = <<>> /\ pinLog' = <<>>
    /\ wire' = <<>>
    /\ ClearWait /\ KeepTimer
    /\ UNCHANGED <<pin, rxq>>
    /\ KeepPure

\* start_tcp_connection up to its wait: itoa::fmt(&mut port_str, port)? and
\* the seven send_raw calls
send_data_connect ==
    /\ pc = "start_tcp_connection"
    /\ LET port_str == itoa_fmt(PORT_STRING_LENGTH, args.port)
       IN  IF ~port_str.ok
           THEN /\ UNCHANGED wire
                /\ Return(op, "start_tcp_connection",
                          Outcome(op, "start_tcp_connection", Err("Fmt", "none")))
                /\ KeepWait /\ KeepTimer
           ELSE \E tx \in TxOutcomes(start_tcp_connection(args.connection_type,
                                                          args.address, port_str.str)) :
                   /\ wire' = wire \o tx.written
                   /\ IF tx.ok
                      THEN /\ Goto("wait_connect_ok")
                           /\ BeginWait(AT_RESPONSE_BUFFER_SIZE,
                                        MillisecondFrom(DEFAULT_TIMEOUT))
                      ELSE /\ Return(op, "start_tcp_connection",
                                     Outcome(op, "start_tcp_connection",
                                             Err("TxError", "none")))
                           /\ KeepWait /\ KeepTimer
    /\ UNCHANGED <<op, args, error_count, acks, pin, pinLog, rxq>>
    /\ KeepPure

\* start_tcp_connection's wait_for_ok has returned; on Ok transmit_data
\* starts: start_transmission(data.len())
send_data_connected ==
    /\ Returned("wait_connect_ok")
    /\ IF response.status = "Err"
       THEN /\ Return(op, "wait_connect_ok", Outcome(op, "wait_connect_ok", response))
            /\ UNCHANGED <<acks, wire>>
            /\ KeepWait /\ KeepTimer
       ELSE /\ acks' = Append(acks, "wait_connect_ok")
            /\ IF ~length_allowed(Len(args.data))
               THEN /\ Panic("start_transmission", "assert message_length < 2048")
                    /\ UNCHANGED wire
                    /\ KeepWait /\ KeepTimer
               ELSE LET length_buffer == itoa_fmt(LENGTH_BUFFER_SIZE, Len(args.data))
                    IN  IF ~length_buffer.ok
                        THEN /\ Return(op, "start_transmission",
                                       Outcome(op, "start_transmission",
                                               Err("Fmt", "none")))
                             /\ UNCHANGED wire
                             /\ KeepWait /\ KeepTimer
                        ELSE \E tx \in TxOutcomes(start_transmission(length_buffer.str)) :
                                /\ wire' = wire \o tx.written
                                /\ IF tx.ok
                                   THEN /\ Goto("wait_prompt")
                                        /\ BeginWait(1, MillisecondFrom(DEFAULT_TIMEOUT))
                                   ELSE /\ Return(op, "start_transmission",
                                                  Outcome(op, "start_transmission",
                                                          Err("TxError", "none")))
                                        /\ KeepWait /\ KeepTimer
    /\ UNCHANGED <<op, args, error_count, pin, pinLog, rxq>>
    /\ KeepPure

\* wait_for_prompt has returned; on Ok self.send_raw(data.as_bytes())?
send_data_prompted ==
    /\ Returned("wait_prompt")
    /\ IF response.status = "Err"
       THEN /\ Return(op, "wait_prompt", Outcome(op, "wait_prompt", response))
            /\ UNCHANGED <<acks, wire>>
            /\ KeepWait /\ KeepTimer
       ELSE /\ acks' = Append(acks, "wait_prompt")
            /\ \E tx \in TxOutcomes(<<args.data>>) :
                  /\ wire' = wire \o tx.written
                  /\ IF tx.ok
                     THEN /\ Goto("wait_send_ok")
                          /\ BeginWait(AT_RESPONSE_BUFFER_SIZE,
                                       MillisecondFrom(DEFAULT_TIMEOUT))
                     ELSE /\ Return(op, "send_payload",
                                    Outcome(op, "send_payload", Err("TxError", "none")))
                          /\ KeepWait /\ KeepTimer
    /\ UNCHANGED <<op, args, error_count, pin, pinLog, rxq>>
    /\ KeepPure

\* transmit_data's wait_for_ok has returned; on Ok close_connection starts
send_data_sent ==
    /\ Returned("wait_send_ok")
    /\ IF response.status = "Err"
       THEN /\ Return(op, "wait_send_ok", Outcome(op, "wait_send_ok", response))
            /\ UNCHANGED <<acks, wire>>
            /\ KeepWait /\ KeepTimer
       ELSE /\ acks' = Append(acks, "wait_send_ok")
            /\ \E tx \in TxOutcomes(send_at_command(CIPCLOSE_BYTES)) :
                  /\ wire' = wire \o tx.written
                  /\ IF tx.ok
                     THEN /\ Goto("wait_close_ok")
                          /\ BeginWait(AT_RESPONSE_BUFFER_SIZE,
                                       MillisecondFrom(DEFAULT_TIMEOUT))
                     ELSE /\ Return(op, "send_close",
                                    Outcome(op, "send_close", Err("TxError", "none")))
                          /\ KeepWait /\ KeepTimer
    /\ UNCHANGED <<op, args, error_count, pin, pinLog, rxq>>
    /\ KeepPure

\* close_connection as a public operation
close_connection ==
    /\ pc = "idle" /\ inst
    /\ op' = "close_connection"
    /\ \E tx \in TxOutcomes(send_at_command(CIPCLOSE_BYTES)) :
          /\ wire' = tx.written
          /\ IF tx.ok
             THEN /\ Goto("wait_close_ok")
                  /\ BeginWait(AT_RESPONSE_BUFFER_SIZE,
                               MillisecondFrom(DEFAULT_TIMEOUT))
             ELSE /\ Return("close_connection", "send_close", Err("TxError", "none"))
                  /\ ClearWait /\ KeepTimer
    /\ args' = NoArgs /\ error_count' = 0
    /\ acks' = <<>> /\ pinLog' = <<>>
    /\ UNCHANGED <<pin, rxq>>
    /\ KeepPure

\* close_connection's wait_for_ok has returned
close_connection_done ==
    /\ Returned("wait_close_ok")
    /\ acks' = IF response.status = "Ok" THEN Append(acks, "wait_close_ok") ELSE acks
    /\ Return(op, "wait_close_ok", Outcome(op, "wait_close_ok", response))
    /\ UNCHANGED <<op, args, error_count, pin, pinLog, wire, rxq>>
    /\ KeepWait /\ KeepTimer
    /\ KeepPure

----------------------------------------------------------------------------
(* The driver with its environment *)

Next ==
    \/ new
    \/ reset
    \/ reset_delay_done
    \/ power_up
    \/ power_up_loop
    \/ power_up_echo_done
    \/ power_down
    \/ pull_some_current
    \/ pull_delay_done
    \/ send_data
    \/ send_data_connect
    \/ send_data_connected
    \/ send_data_prompted
    \/ send_data_sent
    \/ close_connection
    \/ close_connection_done
    \/ module_emits
    \/ read_byte
    \/ read_timeout
    \/ read_serial_error

Spec == Init /\ [][Next]_vars

----------------------------------------------------------------------------
(* The pure functions on their own: compare_circular_buffer and             *)
(* parse_at_response applied to ring buffers, offsets and patterns drawn    *)
(* from bounded sets.                                                       *)

\* 'O', 'K', '\r', '\n'
PureBytes == {79, 75, 13, 10}

\* Every buffer of at most MaxPureLen bytes over PureBytes
ShortBuffers == UNION {[1..n -> PureBytes] : n \in 0..MaxPureLen}

\* p with its c-th byte replaced by 'x' (c = 0: p itself)
Corrupt(p, c) == [i \in 1..Len(p) |-> IF i = c THEN 120 ELSE p[i]]

\* The AT_RESPONSE_BUFFER_SIZE-byte ring, zeroed, into which the bytes of p
\* were written last, the last of them at index rot - 1
Ring(p, rot) ==
    LET n == AT_RESPONSE_BUFFER_SIZE
        linear == Zeroes(n - Len(p)) \o p
    IN  [i \in 1..n |-> linear[((i - 1 - rot) % n) + 1]]

TerminalPatterns == {OK_BYTES, ERROR_BYTES, BUSY_BYTES, GOT_IP_BYTES}

\* Buffers with the offsets they are read at: every short buffer at every
\* offset, and every ring holding a terminal pattern, whole or with one bad
\* byte, read at its write offset and one past it
PureInputs ==
    {<<b, o>> : <<b, o>> \in {bo \in ShortBuffers \X (0..MaxPureLen) :
                                bo[2] <= Len(bo[1])}}
    \cup
    UNION {UNION {{<<Ring(Corrupt(p, c), rot), rot>>,
                   <<Ring(Corrupt(p, c), rot), (rot + 1) % AT_RESPONSE_BUFFER_SIZE>>} :
                     c \in 0..Len(p), rot \in 0..(AT_RESPONSE_BUFFER_SIZE - 1)} :
             p \in TerminalPatterns}

\* The comparison slices: the terminal patterns, and shorter ones
PurePatterns == TerminalPatterns \cup {<<>>, <<10>>, <<13, 10>>}

InitPure ==
    /\ inst = FALSE
    /\ op = "none"
    /\ pc = "pure"
    /\ from = "none"
    /\ args = NoArgs
    /\ error_count = 0
    /\ \E bo \in PureInputs : buffer = bo[1] /\ offset = bo[2]
    /\ received = <<>>
    /\ scan = NoScan
    /\ response = NoResult
    /\ acks = <<>>
    /\ timer = "unarmed"
    /\ timerMs = 0
    /\ pin = "unknown"
    /\ pinLog = <<>>
    /\ wire = <<>>
    /\ rxq = <<>>
    /\ emitted = 0
    /\ result = NoResult
    /\ pattern \in PurePatterns
    /\ cmp = FALSE
    /\ parsed = "None"
    /\ formatted = NoFormat

\* compare_circular_buffer(buffer, offset, pattern) is called
apply_compare ==
    /\ pc = "pure"
    /\ pc' = "compared"
    /\ cmp' = compare_circular_buffer(buffer, offset, pattern)
    /\ UNCHANGED <<inst, op, from, args, error_count, buffer, offset,
                   received, scan, response, acks, timer, timerMs, pin, pinLog,
                   wire, rxq, emitted, result, pattern, parsed, formatted>>

\* parse_at_response(buffer, offset) is called
apply_parse ==
    /\ pc = "pure"
    /\ pc' = "parsed"
    /\ parsed' = parse_at_response(buffer, offset)
    /\ UNCHANGED <<inst, op, from, args, error_count, buffer, offset,
                   received, scan, response, acks, timer, timerMs, pin, pinLog,
                   wire, rxq, emitted, result, pattern, cmp, formatted>>

NextPure == apply_compare \/ apply_parse

SpecPure == InitPure /\ [][NextPure]_vars

\* The last n bytes of the ring buf in circular order, ending at index off - 1
LastBytes(buf, off, n) ==
    [j \in 1..n |-> buf[((off - n + j - 1) % Len(buf)) + 1]]

\* The last n bytes of the slice p
Suffix(p, n) == SubSeq(p, Len(p) - n + 1, Len(p))

----------------------------------------------------------------------------
\* C9: compare_circular_buffer returns true exactly when the last
\* min(len(buffer), len(pattern)) bytes of the ring, in circular order ending
\* at offset - 1, are the pattern's suffix of that length, and every index it
\* computes into the ring lies in 0..len(buffer)-1.
C9_CompareIsTailMatch ==
    pc = "compared" =>
        LET n == Min(Len(buffer), Len(pattern))
        IN  /\ cmp <=> (LastBytes(buffer, offset, n) = Suffix(pattern, n))
            /\ \A i \in 0..(n - 1) :
                  circular_index(Len(buffer), offset, i) \in 0..(Len(buffer) - 1)

\* A full 13-byte ring that wraps around is compared with the longest pattern
\* and matches; the call was made at offset 0 on some input too
C9_Witness ==
    /\ pc = "compared"
    /\ cmp
    /\ pattern = GOT_IP_BYTES
    /\ Len(buffer) = AT_RESPONSE_BUFFER_SIZE
    /\ offset = 5

\* C10 as stated: whatever the buffer's length, a returned variant's whole
\* pattern is what was written last
C10_Original ==
    (pc = "parsed" /\ parsed # "None") =>
        /\ Len(buffer) >= Len(PatternOf(parsed))
        /\ LastBytes(buffer, offset, Len(PatternOf(parsed))) = PatternOf(parsed)

\* C10 (amended): parse_at_response returns a variant only when the ring's
\* newest min(len(buffer), len(pattern)) bytes are the end of that variant's
\* pattern: the whole pattern on a buffer at least as long as the pattern (as
\* the driver's 13-byte buffer is), only the overlap on a shorter buffer.
C10_VariantOnlyOnItsPattern ==
    (pc = "parsed" /\ parsed # "None") =>
        LET p == PatternOf(parsed)
            n == Min(Len(buffer), Len(p))
        IN  LastBytes(buffer, offset, n) = Suffix(p, n)

\* The classifier returns Error on a 13-byte ring that wraps around
C10_Witness ==
    /\ pc = "parsed"
    /\ parsed = "Error"
    /\ Len(buffer) = AT_RESPONSE_BUFFER_SIZE
    /\ offset = 3

----------------------------------------------------------------------------
(* What the claims about the driver are stated with *)

IsPrefix(a, b) == Len(a) <= Len(b) /\ a = SubSeq(b, 1, Len(a))

\* The value of a string of decimal digits
RECURSIVE ValueOf(_)
ValueOf(d) ==
    IF d = <<>> THEN 0
    ELSE 10 * ValueOf(SubSeq(d, 1, Len(d) - 1)) + (d[Len(d)] - 48)

\* d is n in decimal: digits only, no leading zero
IsDecimalOf(d, n) ==
    /\ Len(d) >= 1
    /\ \A i \in 1..Len(d) : d[i] \in 48..57
    /\ Len(d) > 1 => d[1] # 48
    /\ ValueOf(d) = n

\* The bytes of each phase of send_data for the arguments a
ConnectBytes(a) ==
    Flatten(start_tcp_connection(a.connection_type, a.address, Decimal(a.port)))
SendCommandBytes(a) == Flatten(start_transmission(Decimal(Len(a.data))))
SendBytes(a) == SendCommandBytes(a) \o a.data
\* "AT+CIPCLOSE\r\n"
CloseBytes == <<65, 84, 43, 67, 73, 80, 67, 76, 79, 83, 69, 13, 10>>

\* The phase a wait belongs to
PhaseOfWait(w) ==
    CASE w = "wait_connect_ok" -> "Connect"
      [] w \in {"wait_prompt", "wait_send_ok"} -> "Send"
      [] w = "wait_close_ok" -> "Close"

\* The phase send_data is in, by the waits that have returned Ok
PhaseByAcks ==
    CASE Len(acks) = 0 -> "Connect"
      [] Len(acks) \in {1, 2} -> "Send"
      [] Len(acks) = 3 -> "Close"
      [] OTHER -> "Done"

SendDataReturned == op = "send_data" /\ pc = "idle"

----------------------------------------------------------------------------
\* C1: send_data runs Connect, Send, Close in this order: the wire always
\* holds a prefix of the three phases' bytes, a phase's bytes only once the
\* phases before it were acknowledged; when it returns an error the step tag
\* is the phase that was running, the cause is the error of the call that
\* failed, and nothing of a later phase is on the wire.
C1_PhasesInOrder ==
    op = "send_data" =>
        LET connect == ConnectBytes(args)
            send == SendBytes(args)
        IN  /\ IsPrefix(wire, connect \o send \o CloseBytes)
            /\ Len(wire) > Len(connect) => Len(acks) >= 1
            /\ Len(wire) > Len(connect) + Len(SendCommandBytes(args)) => Len(acks) >= 2
            /\ Len(wire) > Len(connect) + Len(send) => Len(acks) >= 3
            /\ (pc = "idle" /\ result.status = "Ok") => Len(acks) = 4
            /\ (pc = "idle" /\ result.status # "Ok") =>
                  /\ result.status = "Err"
                  /\ result.step = PhaseByAcks
                  /\ IF from \in Waits
                     THEN /\ response.status = "Err"
                          /\ result.cause = response.cause
                          /\ result.detail = response.detail
                     ELSE result.cause = "TxError"
                  /\ result.step = "Connect" => IsPrefix(wire, connect)
                  /\ result.step = "Send" => IsPrefix(wire, connect \o send)

\* Send fails after Connect succeeded: ERROR instead of Ok after the payload
C1_Witness ==
    /\ SendDataReturned
    /\ result.step = "Send"
    /\ result.cause = "UnexpectedResponse"
    /\ from = "wait_send_ok"
    /\ wire = ConnectBytes(args) \o SendBytes(args)

\* C2 as stated: with a payload of 2048 bytes or more nothing is ever put on
\* the wire; a payload of 2047 bytes gets AT+CIPSEND=2047 transmitted
C2_Original ==
    op = "send_data" =>
        /\ Len(args.data) >= MAX_MESSAGE_LENGTH => wire = <<>>
        /\ (Len(args.data) = 2047 /\ Len(acks) >= 1 /\ from # "start_transmission") =>
              IsPrefix(ConnectBytes(args)
                         \o <<65, 84, 43, 67, 73, 80, 83, 69, 78, 68, 61,
                              50, 48, 52, 55>>, wire)

\* C2 (amended): send_data with a payload of 2048 bytes fails the length
\* precondition (a panic) only once the Connect phase has completed, with the
\* connect command on the wire and not one byte of the Send phase; a payload
\* of 2047 bytes passes it and AT+CIPSEND=2047\r\n is transmitted.
C2_LengthPrecondition ==
    op = "send_data" =>
        /\ Len(args.data) >= MAX_MESSAGE_LENGTH =>
              /\ IsPrefix(wire, ConnectBytes(args))
              /\ Len(acks) <= 1
              /\ Len(acks) = 1 => (pc = "panicked" /\ wire = ConnectBytes(args))
        /\ pc = "panicked" => Len(args.data) >= MAX_MESSAGE_LENGTH
        /\ (Len(args.data) = 2047 /\ Len(acks) >= 1 /\ from # "start_transmission") =>
              IsPrefix(ConnectBytes(args)
                         \o <<65, 84, 43, 67, 73, 80, 83, 69, 78, 68, 61,
                              50, 48, 52, 55, 13, 10>>, wire)

\* 2047 bytes: the send command is out and the driver waits for the prompt
C2_Witness ==
    /\ op = "send_data"
    /\ pc = "wait_prompt"
    /\ Len(args.data) = 2047
    /\ wire = ConnectBytes(args) \o <<65, 84, 43, 67, 73, 80, 83, 69, 78, 68, 61,
                                      50, 48, 52, 55, 13, 10>>

\* C3 as stated: the only panic is the unwrap after the reset delay
C3_Original == pc = "panicked" => from = "reset_delay"

\* C3 (amended): a failure of the pin, the transport, the timer or the module
\* is returned as an error value; the one panic is the assert on the payload
\* length in start_transmission, reached by send_data with a payload of 2048
\* bytes or more after Connect succeeded (the unwraps on the timer waits of
\* reset and pull_some_current have no error to unwrap).
C3_PanicOnlyByLengthAssert ==
    /\ pc = "panicked" =>
          /\ op = "send_data"
          /\ from = "start_transmission"
          /\ Len(args.data) >= MAX_MESSAGE_LENGTH
          /\ result.status = "panic"
    /\ (pc = "idle" /\ op # "none") =>
          /\ result.status \in {"Ok", "Err"}
          /\ (from \in Waits /\ response.status = "Err") => result.status = "Err"
          /\ from \in {"power_down", "set_high", "pull_high", "pull_low",
                       "send_echo", "start_tcp_connection", "start_transmission",
                       "send_payload", "send_close"} =>
                (result.status = "Err" <=> result.cause \in {"PinError", "TxError"})

\* The pin fails when reset drives it low, and reset returns the error
C3_Witness ==
    /\ pc = "idle"
    /\ op = "reset"
    /\ from = "power_down"
    /\ result = Err("PinError", "none")

\* C4: in power_up's loop a wait for WiFiGotIp that fails with an error other
\* than the timeout is followed by another wait as long as fewer than 255 such
\* failures were counted, and a wait that classifies WiFiGotIp, after any
\* number k <= 255 of them, leaves the loop: the echo-off command is sent next.
C4_RetryThenSuccess ==
    [][(pc = "wait_got_ip" /\ scan.status \in {"Ok", "Err"}) =>
          /\ (error_count < 255
              /\ (scan = ScanErr("Serial")
                  \/ (scan.status = "Ok" /\ scan.val # "WiFiGotIp"))) =>
                /\ pc' = "wait_got_ip"
                /\ scan' = ScanPending
                /\ error_count' = error_count + 1
                /\ wire' = <<>>
          /\ scan = ScanOk("WiFiGotIp") =>
                /\ error_count <= 255
                /\ acks' = <<"wait_got_ip">>
                /\ \/ /\ pc' = "wait_echo_ok"
                      /\ wire' = <<65, 84, 69, 48, 13, 10>>
                   \/ /\ pc' = "idle"
                      /\ from' = "send_echo"
                      /\ result' = Err("TxError", "none")
                      /\ IsPrefix(wire', <<65, 84, 69, 48, 13, 10>>)
      ]_vars

\* The 256th wait, after 255 failures, has classified WiFiGotIp
C4_Witness ==
    /\ pc = "wait_got_ip"
    /\ scan = ScanOk("WiFiGotIp")
    /\ error_count = 255

\* C5: when a wait for WiFiGotIp ends in the receive timeout, power_up
\* returns that error in its next step, whatever error_count is: no new wait
\* starts and nothing is (or was) transmitted.
C5_TimeoutAborts ==
    [][(pc = "wait_got_ip" /\ scan = ScanErr("TimedOut")) =>
          /\ pc' = "idle"
          /\ from' = "wait_got_ip"
          /\ result' = Err("RxError", "TimedOut")
          /\ wire = <<>> /\ wire' = <<>>
          /\ acks' = <<>>
          /\ UNCHANGED <<scan, response, buffer, offset, timer, error_count, rxq>>
      ]_vars

\* The third wait, after two failures of another kind, timed out
C5_Witness ==
    /\ pc = "wait_got_ip"
    /\ scan = ScanErr("TimedOut")
    /\ error_count = 2

\* C6: a wait for an expected terminal response that recognises another one
\* returns UnexpectedResponse with the response whose pattern is at the end of
\* the ring; a scanner failure is returned as RxError with the scanner's error;
\* send_data returns either tagged with the phase of the wait.
C6_UnexpectedResponse ==
    LET w == IF pc \in Waits THEN pc ELSE from
    IN  (w \in Waits /\ pc \in Waits \cup {"idle"}) =>
           /\ (w \in AtWaits /\ scan.status = "Ok" /\ scan.val # Expected(w)) =>
                 response = Err("UnexpectedResponse", scan.val)
           /\ response.cause = "UnexpectedResponse" =>
                 /\ w \in AtWaits
                 /\ response.detail \in ATResponse \ {Expected(w)}
                 /\ LastBytes(buffer, offset, Len(PatternOf(response.detail)))
                       = PatternOf(response.detail)
           /\ scan.status = "Err" => response = Err("RxError", scan.val)
           /\ (op = "send_data" /\ pc = "idle" /\ response.status = "Err") =>
                 result = [response EXCEPT !.step = PhaseOfWait(w)]

\* ERROR\r\n arrives while send_data waits for the Ok of the close command
C6_Witness ==
    /\ SendDataReturned
    /\ from = "wait_close_ok"
    /\ result = [status |-> "Err", step |-> "Close",
                 cause |-> "UnexpectedResponse", detail |-> "Error"]

\* C7: when all four waits of send_data returned Ok it returns Ok, untagged,
\* and the wire holds exactly AT+CIPSTART="<TCP|UDP>","<address>",<port>\r\n,
\* AT+CIPSEND=<length>\r\n, the payload and AT+CIPCLOSE\r\n, the port and the
\* length in decimal.
C7_SuccessfulTransmission ==
    (SendDataReturned
     /\ acks = <<"wait_connect_ok", "wait_prompt", "wait_send_ok", "wait_close_ok">>) =>
        /\ result = OkResult
        /\ \E n1 \in 1..5, n2 \in 1..4 :
              LET head == CIPSTART_BYTES
                            \o (IF args.connection_type = "Tcp"
                                THEN <<84, 67, 80>> ELSE <<85, 68, 80>>)
                            \o <<34, 44, 34>> \o args.address \o <<34, 44>>
                  port_str == SubSeq(wire, Len(head) + 1, Len(head) + n1)
                  at == Len(head) + n1 + 2 + Len(CIPSEND_BYTES)
                  length_str == SubSeq(wire, at + 1, at + n2)
              IN  /\ IsDecimalOf(port_str, args.port)
                  /\ IsDecimalOf(length_str, Len(args.data))
                  /\ wire = head \o port_str \o <<13, 10>>
                              \o CIPSEND_BYTES \o length_str \o <<13, 10>>
                              \o args.data
                              \o CloseBytes

\* 2047 bytes were sent over UDP to port 65535
C7_Witness ==
    /\ SendDataReturned
    /\ result = OkResult
    /\ args.connection_type = "Udp"
    /\ args.port = 65535
    /\ Len(args.data) = 2047

\* C8: new returns Ok, and an Esp8266 value exists, only after chip_enable
\* was driven low, then high, a wait recognised WiFiGotIp, ATE0 was sent and
\* answered Ok; when new returns an error there is no value, and without one
\* no other operation runs.
C8_NewOnlyAfterReset ==
    /\ (op = "new" /\ pc = "idle") =>
          IF result.status = "Ok"
          THEN /\ inst
               /\ pinLog = <<"low", "high">>
               /\ acks = <<"wait_got_ip", "wait_echo_ok">>
               /\ wire = <<65, 84, 69, 48, 13, 10>>
               /\ scan = ScanOk("Ok")
          ELSE /\ ~inst
               /\ result.status = "Err"
    /\ ~inst => op \in {"none", "new"}
    /\ op = "none" => ~inst

\* new has returned Ok
C8_Witness ==
    /\ op = "new"
    /\ pc = "idle"
    /\ result = OkResult
    /\ inst

----------------------------------------------------------------------------
(* One wait for an AT response on its own: the receiver holds a byte stream *)
(* put together from terminal messages, parts of them and other bytes, and  *)
(* the scanner reads it byte by byte.                                       *)

\* What a stream is made of: the terminal messages, the prompt, 'x', a zero
\* byte, "O", "OK", "\r\n", "\n", "K\r\n", "WIFI GOT IP\r", and thirteen
\* bytes that end no message ("WIFI GOT IP\rx")
StreamPieces ==
    TerminalPatterns
    \cup {<<62>>, <<120>>, <<0>>, <<79>>, <<79, 75>>, <<13, 10>>, <<10>>,
          <<75, 13, 10>>, SubSeq(GOT_IP_BYTES, 1, 12), Corrupt(GOT_IP_BYTES, 13)}

RECURSIVE StreamsOf(_)
StreamsOf(n) ==
    IF n = 0 THEN {<<>>}
    ELSE LET shorter == StreamsOf(n - 1)
         IN  shorter \cup {s \o piece : s \in shorter, piece \in StreamPieces}

Streams == StreamsOf(MaxPieces)

\* send_data's arguments in the wait for the prompt: "hi" to port 80 over TCP
ScanArgs ==
    [connection_type |-> "Tcp", address |-> <<>>, port |-> 80, data |-> Data(2)]

\* power_up has driven the pin high and started its first wait_for_got_ip,
\* close_connection has sent its command and started wait_for_ok, or
\* send_data has sent AT+CIPSEND=2 and started wait_for_prompt
InitScan ==
    /\ inst = TRUE
    /\ \/ /\ op = "power_up"
          /\ pc = "wait_got_ip"
          /\ timerMs = MillisecondFrom(STARTUP_TIMEOUT)
          /\ pinLog = <<"high">>
          /\ wire = <<>>
          /\ args = NoArgs
          /\ acks = <<>>
          /\ buffer = Zeroes(AT_RESPONSE_BUFFER_SIZE)
       \/ /\ op = "close_connection"
          /\ pc = "wait_close_ok"
          /\ timerMs = MillisecondFrom(DEFAULT_TIMEOUT)
          /\ pinLog = <<>>
          /\ wire = Flatten(send_at_command(CIPCLOSE_BYTES))
          /\ args = NoArgs
          /\ acks = <<>>
          /\ buffer = Zeroes(AT_RESPONSE_BUFFER_SIZE)
       \/ /\ op = "send_data"
          /\ pc = "wait_prompt"
          /\ timerMs = MillisecondFrom(DEFAULT_TIMEOUT)
          /\ pinLog = <<>>
          /\ wire = ConnectBytes(ScanArgs) \o SendCommandBytes(ScanArgs)
          /\ args = ScanArgs
          /\ acks = <<"wait_connect_ok">>
          /\ buffer = Zeroes(1)
    /\ from = "none"
    /\ error_count = 0
    /\ offset = 0
    /\ received = <<>>
    /\ scan = ScanPending
    /\ response = Pending
    /\ timer = "running"
    /\ pin = "high"
    /\ rxq \in Streams
    /\ emitted = 0
    /\ result = Pending
    /\ pattern = <<>>
    /\ cmp = FALSE
    /\ parsed = "None"
    /\ formatted = NoFormat

NextScan == read_byte \/ read_timeout \/ read_serial_error

SpecScan == InitScan /\ [][NextScan]_vars

\* The byte indices (from 1) of the stream s at which the last byte of a
\* terminal pattern stands, the pattern's bytes before it
CompletedAt(s) ==
    {i \in 1..Len(s) :
        \E p \in TerminalPatterns :
            i >= Len(p) /\ SubSeq(s, i - Len(p) + 1, i) = p}

\* C11: a wait for an AT response has returned a classified response exactly
\* when the last byte read is the first in the stream to complete a terminal
\* pattern, the response being that pattern's; while no pattern is complete it
\* has returned none; and offset is the number of bytes read modulo 13.
C11_ReturnsAtFirstCompletion ==
    pc \in AtWaits =>
        /\ offset = Len(received) % AT_RESPONSE_BUFFER_SIZE
        /\ scan.status = "Ok" =>
              /\ CompletedAt(received) = {Len(received)}
              /\ Suffix(received, Len(PatternOf(scan.val))) = PatternOf(scan.val)
        /\ scan.status # "Ok" => CompletedAt(received) = {}

\* Thirteen bytes that end no message fill the ring, then OK\r\n wraps around
C11_Witness ==
    /\ pc = "wait_close_ok"
    /\ scan = ScanOk("Ok")
    /\ Len(received) = 17
    /\ offset = 4

\* The scanner's loop keeps polling the receiver and the timer, and the
\* countdown runs out: a byte that is there is read, and a wait with nothing
\* to read times out
SpecScanLive ==
    SpecScan /\ WF_vars(read_byte) /\ WF_vars(read_timeout)

\* C12: every scanner call returns; one whose stream completes no terminal
\* pattern (no '>' for wait_for_prompt) returns an error, the timeout only
\* once the timer has expired; and the receiver's error is returned in the
\* step it occurs, as a kind other than the timeout.
C12_ScannerTerminates ==
    /\ Scanning ~> ~Scanning
    /\ (Scanning
        /\ (IF pc = "wait_prompt" THEN \A i \in 1..Len(rxq) : rxq[i] # 62
            ELSE CompletedAt(received \o rxq) = {}))
          ~> (pc \in Waits /\ scan.status = "Err" /\ response.cause = "RxError")
    /\ [](pc \in Waits =>
            /\ scan = ScanErr("TimedOut") =>
                  /\ timer = "expired"
                  /\ response = Err("RxError", "TimedOut")
            /\ scan = ScanErr("Serial") => response = Err("RxError", "Serial")
            /\ response.status = "Err" /\ response.cause = "RxError" =>
                  response.detail \in {"TimedOut", "Serial"}
            /\ timer = "expired" => scan = ScanErr("TimedOut"))

\* A wait that read only bytes ending no message has timed out
C12_Witness ==
    /\ pc = "wait_got_ip"
    /\ received = Corrupt(GOT_IP_BYTES, 13) \o <<79, 75>>
    /\ scan = ScanErr("TimedOut")
    /\ timer = "expired"

\* C13: in send_data nothing beyond AT+CIPSEND=<length>\r\n is on the wire
\* until wait_for_prompt has returned Ok, which it does exactly when the last
\* byte it read is the first '>'; bytes other than '>' leave it scanning; and
\* when it returns an error instead, send_data returns that error tagged Send
\* with no payload byte written.
C13_PayloadOnlyAfterPrompt ==
    /\ [](op = "send_data" =>
            LET command == ConnectBytes(args) \o SendCommandBytes(args)
                at_prompt == pc = "wait_prompt"
                               \/ (pc = "idle" /\ from = "wait_prompt")
            IN  /\ Len(wire) > Len(command) =>
                      Len(acks) >= 2 /\ acks[2] = "wait_prompt"
                /\ (at_prompt \/ (pc = "idle" /\ from = "send_payload")) =>
                      \A i \in 1..(Len(received) - 1) : received[i] # 62
                /\ at_prompt =>
                      /\ wire = command
                      /\ response.status = "Ok" <=>
                            (received # <<>> /\ received[Len(received)] = 62)
                      /\ response.status = "Err" =>
                            /\ response.cause = "RxError"
                            /\ scan.status = "Err"
                /\ (pc = "idle" /\ from = "wait_prompt") =>
                      /\ result = [status |-> "Err", step |-> "Send",
                                   cause |-> "RxError", detail |-> scan.val]
                      /\ scan.val \in {"TimedOut", "Serial"})
    /\ [][(pc = "wait_prompt" /\ acks' # acks) =>
             /\ received # <<>> /\ received[Len(received)] = 62
             /\ acks' = Append(acks, "wait_prompt")
             /\ IsPrefix(wire, wire')
             /\ IsPrefix(SubSeq(wire', Len(wire) + 1, Len(wire')), args.data)
         ]_vars

\* ERROR\r\n came before the prompt and was ignored
C13_Witness ==
    /\ op = "send_data"
    /\ pc = "wait_prompt"
    /\ received = ERROR_BYTES \o <<62>>
    /\ response = OkResult

\* C14: power_up makes at most 256 waits for WiFiGotIp: error_count never
\* exceeds 255, every further wait of the loop counts one more failure, and
\* when a wait fails with 255 failures counted, power_up returns that wait's
\* error in its next step without another wait and with nothing transmitted.
C14_AtMost256Waits ==
    /\ [](error_count \in 0..255)
    /\ [][(pc = "wait_got_ip" /\ response.status = "Err" /\ error_count = 255) =>
             /\ pc' = "idle"
             /\ from' = "wait_got_ip"
             /\ result' = response
             /\ wire = <<>> /\ wire' = <<>>
             /\ acks' = <<>>
             /\ UNCHANGED <<scan, received, response, error_count>>
         ]_vars
    /\ [][(pc = "wait_got_ip" /\ pc' = "wait_got_ip"
           /\ scan # ScanPending /\ scan' = ScanPending) =>
             /\ error_count < 255
             /\ error_count' = error_count + 1
         ]_vars

\* The 256th wait recognised busy p...\r\n and power_up returned it
C14_Witness ==
    /\ op \in {"new", "reset", "power_up"}
    /\ pc = "idle"
    /\ from = "wait_got_ip"
    /\ error_count = 255
    /\ result = Err("UnexpectedResponse", "Busy")
    /\ wire = <<>>

\* C15: new and reset first drive chip_enable low; if that fails they return
\* the pin error with the timer, the pin and the serial link untouched,
\* otherwise the timer is started for 10 ms and only the step after the delay
\* drives the pin high and starts the first wait; no byte is read or written
\* before the pin was driven low and then high.
C15_ResetOrder ==
    /\ [](op \in {"new", "reset"} =>
            /\ pinLog \in {<<>>, <<"low">>, <<"low", "high">>}
            /\ pc = "reset_delay" =>
                  /\ pinLog = <<"low">>
                  /\ pin = "low"
                  /\ timer = "running"
                  /\ timerMs = 10
            /\ (scan # NoScan \/ received # <<>> \/ wire # <<>> \/ pc \in Waits) =>
                  pinLog = <<"low", "high">>
            /\ (pc = "idle" /\ pinLog = <<>>) =>
                  /\ result = Err("PinError", "none")
                  /\ from = "power_down")
    /\ [][(pc = "idle" /\ op' \in {"new", "reset"}) =>
             \/ /\ pc' = "reset_delay"
                /\ pinLog' = <<"low">>
                /\ timer' = "running"
                /\ timerMs' = 10
                /\ UNCHANGED rxq
             \/ /\ pc' = "idle"
                /\ result' = Err("PinError", "none")
                /\ pinLog' = <<>>
                /\ wire' = <<>>
                /\ scan' = NoScan
                /\ UNCHANGED <<timer, timerMs, pin, rxq>>
         ]_vars
    /\ [][pc = "reset_delay" =>
             \/ /\ pc' = "wait_got_ip"
                /\ pinLog' = <<"low", "high">>
                /\ pin' = "high"
                /\ received' = <<>>
             \/ /\ pc' = "idle"
                /\ pinLog' = <<"low">>
                /\ from' = "set_high"
                /\ result' = Err("PinError", "none")
                /\ timer' = "expired"
         ]_vars

\* reset has driven the pin low, waited, driven it high and read a byte
C15_Witness ==
    /\ op = "reset"
    /\ pc = "wait_got_ip"
    /\ pinLog = <<"low", "high">>
    /\ timerMs = MillisecondFrom(STARTUP_TIMEOUT)
    /\ Len(received) = 1

\* The operations that run power_up
PowerOps == {"new", "reset", "power_up"}

\* What send_at_command("E0") writes
echo_off_command == Flatten(send_at_command(E0_BYTES))

\* C16: power_up writes the echo-off command at most once, starting only in
\* the step after a wait classified WiFiGotIp; a failed write returns TxError
\* and a failed wait for Ok returns that wait's error as it is, in both cases
\* with no further wait and nothing more written.
C16_EchoOffOnce ==
    /\ [](op \in PowerOps =>
            /\ IsPrefix(wire, echo_off_command)
            /\ pc = "wait_echo_ok" =>
                  /\ wire = echo_off_command
                  /\ acks = <<"wait_got_ip">>
            /\ (pc = "idle" /\ from = "wait_echo_ok") =>
                  /\ wire = echo_off_command
                  /\ result = response
                  /\ response.status = "Ok" <=> scan = ScanOk("Ok")
            /\ (pc = "idle" /\ from = "send_echo") =>
                  /\ wire # echo_off_command
                  /\ result = Err("TxError", "none")
                  /\ scan = ScanOk("WiFiGotIp"))
    /\ [][(op' \in PowerOps
           /\ \/ wire' # wire /\ wire' # <<>>
              \/ pc # "wait_echo_ok" /\ pc' = "wait_echo_ok"
              \/ pc # "idle" /\ from' = "send_echo") =>
             /\ pc = "wait_got_ip"
             /\ scan = ScanOk("WiFiGotIp")
             /\ wire = <<>>
         ]_vars
    /\ [][(pc = "wait_echo_ok" /\ response.status \in {"Ok", "Err"}) =>
             /\ pc' = "idle"
             /\ from' = "wait_echo_ok"
             /\ result' = response
             /\ UNCHANGED <<wire, scan, received, response, error_count>>
         ]_vars

\* ERROR\r\n answered the echo-off command and power_up returned it
C16_Witness ==
    /\ op = "power_up"
    /\ pc = "idle"
    /\ from = "wait_echo_ok"
    /\ result = Err("UnexpectedResponse", "Error")
    /\ wire = echo_off_command

\* C17 as stated: the echo-off command on the wire is "AT E0\r\n"
C17_Original ==
    (op \in PowerOps /\ pc = "wait_echo_ok") =>
        wire = <<65, 84, 32, 69, 48, 13, 10>>

\* C17: the echo-off command power_up puts on the wire is "ATE0\r\n", with no
\* space: while it waits for the command's Ok, and when it has returned from
\* that wait, the wire holds exactly these six bytes.
C17_EchoOffBytes ==
    (op \in PowerOps /\ (pc = "wait_echo_ok" \/ from = "wait_echo_ok")) =>
        wire = <<65, 84, 69, 48, 13, 10>>

\* new has sent the command and waits for its Ok
C17_Witness ==
    /\ op = "new"
    /\ pc = "wait_echo_ok"
    /\ Len(wire) = 6
    /\ scan = ScanPending

----------------------------------------------------------------------------
(* itoa::fmt on its own: every port send_data can be called with and every  *)
(* payload length start_transmission accepts is formatted into the buffer   *)
(* the code provides for it.                                                *)

\* u16::MAX, the largest port
U16_MAX == 65535

\* port_str with every u16 port, length_buffer with every message_length
\* that passes the assert
FormatInputs ==
    {[capacity |-> PORT_STRING_LENGTH, value |-> n, ok |-> FALSE, str |-> <<>>] :
        n \in 0..U16_MAX}
    \cup
    {[capacity |-> LENGTH_BUFFER_SIZE, value |-> n, ok |-> FALSE, str |-> <<>>] :
        n \in {l \in 0..MAX_MESSAGE_LENGTH : length_allowed(l)}}

InitFmt ==
    /\ inst = TRUE
    /\ op = "send_data"
    /\ pc = "fmt"
    /\ from = "none"
    /\ args = NoArgs
    /\ error_count = 0
    /\ buffer = <<>>
    /\ offset = 0
    /\ received = <<>>
    /\ scan = NoScan
    /\ response = NoResult
    /\ acks = <<>>
    /\ timer = "unarmed"
    /\ timerMs = 0
    /\ pin = "high"
    /\ pinLog = <<>>
    /\ wire = <<>>
    /\ rxq = <<>>
    /\ emitted = 0
    /\ result = Pending
    /\ pattern = <<>>
    /\ cmp = FALSE
    /\ parsed = "None"
    /\ formatted \in FormatInputs

\* itoa::fmt(&mut buf, value)? at position at: on Err the ? returns it, which
\* send_data tags with the step
format(at) ==
    /\ pc = "fmt"
    /\ pc' = "formatted"
    /\ from' = at
    /\ LET r == itoa_fmt(formatted.capacity, formatted.value)
       IN  /\ formatted' = [formatted EXCEPT !.ok = r.ok, !.str = r.str]
           /\ result' = IF r.ok THEN Pending
                        ELSE Outcome(op, at, Err("Fmt", "none"))
    /\ UNCHANGED <<inst, op, args, error_count, buffer, offset, received, scan,
                   response, acks, timer, timerMs, pin, pinLog, wire, rxq,
                   emitted, pattern, cmp, parsed>>

\* itoa::fmt(&mut port_str, port)?
format_port ==
    /\ formatted.capacity = PORT_STRING_LENGTH
    /\ format("start_tcp_connection")

\* itoa::fmt(&mut length_buffer, message_length)?
format_length ==
    /\ formatted.capacity = LENGTH_BUFFER_SIZE
    /\ format("start_transmission")

NextFmt == format_port \/ format_length

SpecFmt == InitFmt /\ [][NextFmt]_vars

\* C18: itoa::fmt succeeds for every u16 port in the 5-byte port_str and for
\* every accepted message length (0..2047) in the 4-byte length_buffer, the
\* string being the value in decimal; so no formatting error is returned.
C18_DecimalFits ==
    pc = "formatted" =>
        /\ formatted.ok
        /\ Len(formatted.str) <= formatted.capacity
        /\ IsDecimalOf(formatted.str, formatted.value)
        /\ result = Pending
        /\ formatted.capacity = 5 => formatted.value \in 0..65535
        /\ formatted.capacity = 4 => formatted.value \in 0..2047

\* Port 65535 was formatted and fills port_str
C18_Witness ==
    /\ pc = "formatted"
    /\ from = "start_tcp_connection"
    /\ formatted.value = 65535
    /\ formatted.str = <<54, 53, 53, 51, 53>>

----------------------------------------------------------------------------
\* C19: power_down only drives chip_enable low: it writes and reads nothing
\* and leaves the timer alone; send_data and close_connection drive no level;
\* so the level last driven is the last one of the most recent operation that
\* drove any: low once power_down or pull_some_current returned Ok, high once
\* power_up drove it.
C19_ChipEnableFrame ==
    /\ [](/\ op = "power_down" =>
                /\ pc = "idle"
                /\ wire = <<>> /\ received = <<>> /\ scan = NoScan
                /\ pinLog = IF result.status = "Ok" THEN <<"low">> ELSE <<>>
          /\ (op = "pull_some_current" /\ pc = "idle" /\ result.status = "Ok") =>
                pinLog = <<"high", "low">>
          /\ (op \in PowerOps /\ (pc \in Waits \/ from \in Waits)) =>
                pinLog[Len(pinLog)] = "high"
          /\ op \in {"send_data", "close_connection"} => pinLog = <<>>
          /\ pinLog # <<>> => pin = pinLog[Len(pinLog)])
    /\ [][(pc = "idle" /\ op' = "power_down") =>
             /\ pc' = "idle"
             /\ wire' = <<>>
             /\ UNCHANGED <<timer, timerMs, rxq>>
         ]_vars
    /\ [][(op' \in {"send_data", "close_connection"} \/ pinLog' = <<>>) =>
             pin' = pin
         ]_vars

\* The chip was powered down and a later close_connection, which timed out,
\* left chip_enable low
C19_Witness ==
    /\ op = "close_connection"
    /\ pc = "idle"
    /\ result = Err("RxError", "TimedOut")
    /\ pin = "low"

----------------------------------------------------------------------------
\* C20: on a buffer of AT_RESPONSE_BUFFER_SIZE bytes at most one of the four
\* terminal patterns matches the tail, no pattern being the end of another,
\* and parse_at_response returns the variant of the one that matches, None
\* when none does: the order in which it tries them does not matter.
C20_AtMostOnePattern ==
    /\ \A p, q \in TerminalPatterns :
          p # q => Suffix(p, Min(Len(p), Len(q))) # Suffix(q, Min(Len(p), Len(q)))
    /\ (pc = "parsed" /\ Len(buffer) = AT_RESPONSE_BUFFER_SIZE) =>
          LET matching == {r \in ATResponse :
                             compare_circular_buffer(buffer, offset, PatternOf(r))}
          IN  /\ Cardinality(matching) <= 1
              /\ parsed = "None" <=> matching = {}
              /\ parsed # "None" => matching = {parsed}

\* ERROR\r\n, written around the end of the ring, was classified
C20_Witness ==
    /\ pc = "parsed"
    /\ Len(buffer) = AT_RESPONSE_BUFFER_SIZE
    /\ offset = 3
    /\ parsed = "Error"

====
